---- MODULE Spec2Model ----
(***************************************************************************)
(* Model of the grok-sdr-system backend: the agent chat endpoint with its  *)
(* tool loop (routes/agent.ts), the tool registry and its lead executors   *)
(* (services/toolRegistry.ts, services/leadScoringService.ts), the         *)
(* provider client and the conversation store                              *)
(* (services/conversationService.ts).                                      *)
(*   Spec      one chat request, the provider stops asking for tools       *)
(*   LoopSpec  one chat request, the provider may ask for tools for ever   *)
(*   ScoreSpec score_lead, rescore_lead, update_lead_stage, one at a time  *)
(*   ConcSpec  two score_lead executions interleaved at their awaits       *)
(***************************************************************************)
EXTENDS Integers, Sequences, FiniteSets, TLC

\* ------------------------------------------------------------------ bounds
\* tool-loop iterations the provider may ask for in one request (Spec)
MaxLoop == 2
\* tool calls the provider may put in one response
MaxCalls == 2
\* tool-loop iterations whose turns LoopSpec records
LoopRecorded == 1
\* fragments in a criteria text
MaxFrags == 2
\* tool executions in one run of ScoreSpec and of ConcSpec
MaxOps == 2
\* conversations that may be saved before a further chat request of SessionSpec
MaxSaved == 1
\* records the criteria endpoint may find in the table when it creates one
MaxCriteria == 2
\* conversations that may be saved before a further message of ClientSpec
MaxClientSaved == 2
\* fragments of a criteria text of ParseSpec
MaxWeightFrags == 3

\* ------------------------------------------------------- program constants
\* callGrok: const maxRetries = 3
maxRetries == 3


VARIABLES
    executors,      \* ToolRegistry.executors: the registered tool names
    pc,             \* position of the POST /chat handler
    messages,       \* the handler's local `messages` array
    response,       \* the handler's local `response` (last provider message)
    toolIdx,        \* index of the for-loop over response.tool_calls
    loopIters,      \* iterations of the while loop entered so far
    chatCalls,      \* requests sent by chatWithTools in this chat request
    lastStatus,     \* outcome of the last provider request
    sumTry,         \* callGrok's loop variable i within summarizeConversation
    sumCalls,       \* requests sent by callGrok in this chat request
    summary,        \* the summary saveConversation stores
    lastExec,       \* the last executeTool invocation and what it gave
    toolsRun,       \* executeTool invocations in this chat request
    failedAt,       \* where the exception that ended the request was raised
    conversations,  \* the Conversation table
    reply,          \* the HTTP response sent
    historyError,   \* the database call of getConversationHistory failed
    convId,         \* the conversationId of the request (0: none)
    tools,          \* the handler's local `tools`: the catalog read at line 40
    sent,           \* what the last chatWithTools call was given
    leads,          \* the Lead table, by lead id
    activities,     \* the Activity table, in creation order
    scorings,       \* the LeadScoring table, in creation order
    criteriaTable,  \* the ScoringCriteria table, in creation order
    req,            \* the tool executions in flight: position and locals of each
    ops,            \* tool executions started so far
    scoreLog,       \* the arguments of the score_lead executions IdemSpec observes
    grok            \* one call of GrokService.callGrok: position and locals

chatVars == <<executors, pc, messages, response, toolIdx, loopIters, chatCalls,
              lastStatus, sumTry, sumCalls, summary, lastExec,
              toolsRun, failedAt, conversations, reply, historyError,
              convId, tools, sent>>

scoreVars == <<leads, activities, scorings, criteriaTable, req, ops, scoreLog>>

grokVars == <<grok>>

vars == <<chatVars, scoreVars, grokVars>>

\* ---------------------------------------------------------------- registry
CoreTools == {"score_lead", "rescore_lead", "update_lead_stage", "generate_message",
              "search_database", "analyze_pipeline", "find_similar_leads",
              "evaluate_scoring"}

\* a tool added through the public registerTool; its executor has no try/catch
PluginTool == "plugin_tool"

\* tool names the provider asks for in the model
ToolNames == {"score_lead", PluginTool}

\* what an executor does when invoked: the core executors wrap their body in
\* try/catch and always resolve to a result; a registered executor may throw
CoreBehaviours == {"ok", "fail"}
PluginBehaviours == {"ok", "fail", "throwError", "throwOther"}

Behaviours(name) == IF name \in CoreTools THEN CoreBehaviours ELSE PluginBehaviours

ExecutorMessage == "executor failed"

NoError == ""

\* executeTool without its try/catch: the executor's exception escapes
executeTool_NoCatch(registered, name, beh) ==
    IF name \notin registered
    THEN [kind |-> "returned", success |-> FALSE,
          error |-> "Tool '" \o name \o "' not found"]
    ELSE CASE beh = "ok" -> [kind |-> "returned", success |-> TRUE, error |-> NoError]
           [] beh = "fail" -> [kind |-> "returned", success |-> FALSE, error |-> "Lead not found"]
           [] OTHER -> [kind |-> "thrown", success |-> FALSE, error |-> ExecutorMessage]

executeTool(registered, name, beh) ==
    IF name \notin registered
    THEN [kind |-> "returned", success |-> FALSE,
          error |-> "Tool '" \o name \o "' not found"]
    ELSE CASE beh = "ok" -> [kind |-> "returned", success |-> TRUE, error |-> NoError]
           [] beh = "fail" -> [kind |-> "returned", success |-> FALSE, error |-> "Lead not found"]
           [] beh = "throwError" -> [kind |-> "returned", success |-> FALSE,
                                     error |-> ExecutorMessage]
           [] OTHER -> [kind |-> "returned", success |-> FALSE,
                        error |-> "Tool execution failed"]

\* ------------------------------------------------------------ JSON strings
ValidArgs == "{}"
BrokenArgs == "{\"email\":"
ArgStrings == {ValidArgs, BrokenArgs}

\* whether JSON.parse accepts the string
JSONParses(s) == s \in {ValidArgs, "{\"action\":\"score_lead\",\"action input\":{}}"}

\* --------------------------------------------------------- provider output
NoCalls == <<>>

\* the text of a provider message
PlainText == [tag |-> "none", inner |-> ""]
InlineCall == [tag |-> "closed", inner |-> "{\"action\":\"score_lead\",\"action input\":{}}"]
InlineBroken == [tag |-> "closed", inner |-> "{action: score_lead"]
InlineOpen == [tag |-> "open", inner |-> "{\"action\":\"score_lead\",\"action input\":{}}"]
Acknowledgement == [tag |-> "none", inner |-> "I'll generate that message for you."]

Contents == {PlainText, InlineCall, InlineBroken, InlineOpen}

\* the `action` field of the parsed pseudo-tag body
ActionOf(inner) == "score_lead"

\* the provider gives every call of a response its own id
CallSeqs(chat) ==
    UNION {{[i \in 1..n |-> [id |-> chat * (MaxCalls + 1) + i, name |-> f[i].name,
                             args |-> f[i].args]] :
               f \in [1..n -> [name : ToolNames, args : ArgStrings]]} :
           n \in 1..MaxCalls}

\* tool_calls is absent ("absent"), an empty array ("empty") or holds calls
ToolResponses(chat) ==
    {[tc |-> "calls", calls |-> cs, content |-> PlainText] : cs \in CallSeqs(chat)}

TextResponses ==
    {[tc |-> t, calls |-> NoCalls, content |-> c] : t \in {"absent", "empty"}, c \in Contents}

NoResponse == [tc |-> "absent", calls |-> NoCalls, content |-> PlainText]

\* agent.ts 48-71: the pseudo-tag detection applied to the first response
NormalizeInline(r) ==
    IF r.tc = "absent" /\ r.content.tag # "none"
    THEN IF r.content.tag = "closed" /\ JSONParses(r.content.inner)
         THEN [tc |-> "calls",
               calls |-> <<[id |-> 0, name |-> ActionOf(r.content.inner), args |-> ValidArgs]>>,
               content |-> Acknowledgement]
         ELSE r
    ELSE r

\* ------------------------------------------------------------------ turns
UserTurn == [role |-> "user", calls |-> NoCalls, id |-> -1, content |-> PlainText,
             result |-> [success |-> TRUE, error |-> NoError]]

\* the assistant turn pushed without its tool_calls
AssistantTurnNoCalls(r) == [role |-> "assistant", calls |-> NoCalls, id |-> -1,
                            content |-> r.content,
                            result |-> [success |-> TRUE, error |-> NoError]]

AssistantTurn(r) == [role |-> "assistant", calls |-> r.calls, id |-> -1,
                     content |-> r.content, result |-> [success |-> TRUE, error |-> NoError]]

ToolTurn(call, res) == [role |-> "tool", calls |-> NoCalls, id |-> call.id,
                        content |-> PlainText,
                        result |-> [success |-> res.success, error |-> res.error]]

\* a counter of the model stops counting one past cap
Bump(n, cap) == IF n > cap THEN n ELSE n + 1

\* messages.push; the turns of the iterations after the first rec ones are not
\* recorded (every iteration of Spec is recorded)
Push(m, t, iters, rec) == IF iters > rec THEN m ELSE Append(m, t)

NoReply == [status |-> 0, conversationId |-> 0, messages |-> <<>>]

NoExec == [name |-> "", beh |-> "", registered |-> FALSE,
           result |-> [kind |-> "none", success |-> FALSE, error |-> NoError]]

\* ================================================================ scoring
\* A criteria text is a sequence of fragments joined by ", ".  Each fragment
\* stands for the text written beside it; parseCriteria is modelled by what its
\* regular expressions extract from such a text.
\*   wpct    "Size=10%" / "Industry=10%" / "Intent=10%"
\*   wpts    "Size=10"  / "Industry=10"  / "Intent=10"
\*   over    ">500 employees"
\*   under   "under 30 employees"
\*   pts     "15-20 points"
\*   word    "medium" / "high"
\*   minemp  "100+ employees"
\*   indctx  "in Finance industry"
\*   indlist "SaaS/Tech"
\*   indword "Retail"
\*   budget  "Budget >$200k"
Frag(k, cat, n, a, b, names) ==
    [k |-> k, cat |-> cat, n |-> n, a |-> a, b |-> b, names |-> names]

WPct(cat, n) == Frag("wpct", cat, n, 0, 0, <<>>)
WPts(cat, n) == Frag("wpts", cat, n, 0, 0, <<>>)
Over(n) == Frag("over", "", n, 0, 0, <<>>)
Under(n) == Frag("under", "", n, 0, 0, <<>>)
Pts(a, b) == Frag("pts", "", 0, a, b, <<>>)
Word(w) == Frag("word", w, 0, 0, 0, <<>>)
MinEmp(n) == Frag("minemp", "", n, 0, 0, <<>>)
IndCtx(names) == Frag("indctx", "", 0, 0, 0, names)
IndList(names) == Frag("indlist", "", 0, 0, 0, names)
IndWord(name) == Frag("indword", "", 0, 0, 0, <<name>>)
Budget(n) == Frag("budget", "", n, 0, 0, <<>>)

\* String.prototype.toLowerCase on the industry words of the model
toLowerCase(w) ==
    CASE w = "SaaS" -> "saas"
      [] w = "Tech" -> "tech"
      [] w = "Software" -> "software"
      [] w = "Finance" -> "finance"
      [] w = "Retail" -> "retail"
      [] w = "Mining" -> "mining"
      [] w = "SOFTWARE" -> "software"
      [] w = "Technical" -> "technical"
      [] w = "Banking" -> "banking"
      [] w = "Pharma" -> "pharma"
      [] w = "Healthcare" -> "healthcare"
      [] w = "Health" -> "health"
      [] OTHER -> w

\* the words of standalonePattern (toolRegistry.ts 191)
StandaloneWords == {"saas", "tech", "technology", "finance", "financial", "healthcare",
                    "retail", "manufacturing", "software"}

\* points are kept in quarters: every value the executor computes is a multiple
\* of 1/4 ((a + b) / 2, 0.25 * weight, the mean of two such values)
Q == 4

NoMax == -1

DefaultWeights == [size |-> 40, industry |-> 30, intent |-> 30]

RECURSIVE ApplyWeights(_, _, _)
\* the exec loops of toolRegistry.ts 90-94 / 100-104 over the fragments of kind k
ApplyWeights(text, k, w) ==
    IF text = <<>> THEN w
    ELSE LET f == Head(text)
             w2 == IF f.k = k THEN [w EXCEPT ![f.cat] = f.n] ELSE w
         IN ApplyWeights(Tail(text), k, w2)

HasKind(text, k) == \E i \in 1..Len(text) : text[i].k = k

HasWord(text, w) == \E i \in 1..Len(text) : text[i].k = "word" /\ text[i].cat = w

\* toolRegistry.ts 85-105
ParseWeights(text) ==
    IF HasKind(text, "wpct") THEN ApplyWeights(text, "wpct", DefaultWeights)
    ELSE ApplyWeights(text, "wpts", DefaultWeights)

\* whether the decimal digits of m begin with those of n: ">" n occurs in ">" m
RECURSIVE DigitsPrefix(_, _)
DigitsPrefix(n, m) == IF m = n THEN TRUE ELSE IF m < 10 THEN FALSE ELSE DigitsPrefix(n, m \div 10)

\* index of the first "a-b" after position i, 0 when there is none
FirstPtsAfter(text, i) ==
    LET js == {j \in (i + 1)..Len(text) : text[j].k = "pts"}
    IN IF js = {} THEN 0 ELSE CHOOSE j \in js : \A j2 \in js : j <= j2

\* text.match(new RegExp(`>${threshold}[^.]*?(\d+)[-–](\d+)`)): the leftmost
\* ">threshold" that an "a-b" follows, and the first "a-b" after it
OverPoints(text, threshold) ==
    LET starts == {i \in 1..Len(text) : /\ text[i].k = "over"
                                        /\ DigitsPrefix(threshold, text[i].n)
                                        /\ FirstPtsAfter(text, i) # 0}
        occurs == \E i \in 1..Len(text) : text[i].k = "over" /\ DigitsPrefix(threshold, text[i].n)
    IN IF starts # {}
       THEN LET i0 == CHOOSE i \in starts : \A i2 \in starts : i <= i2
                p == text[FirstPtsAfter(text, i0)]
            IN (p.a + p.b) * (Q \div 2)
       ELSE IF occurs /\ HasWord(text, "high") THEN 40 * Q
       ELSE IF occurs /\ HasWord(text, "medium") THEN 25 * Q
       ELSE 40 * Q

\* text.match(new RegExp(`(?:under|<)\s*${threshold}[^.]*?(\d+)[-–](\d+)`))
UnderPoints(text, threshold) ==
    LET starts == {i \in 1..Len(text) : /\ text[i].k = "under"
                                        /\ DigitsPrefix(threshold, text[i].n)
                                        /\ FirstPtsAfter(text, i) # 0}
    IN IF starts # {}
       THEN LET i0 == CHOOSE i \in starts : \A i2 \in starts : i <= i2
                p == text[FirstPtsAfter(text, i0)]
            IN (p.a + p.b) * (Q \div 2)
       ELSE 5 * Q

RECURSIVE RangesOf(_, _, _)
\* toolRegistry.ts 112-147: the ranges of the fragments of kind k, in text order
RangesOf(text, k, whole) ==
    IF text = <<>> THEN <<>>
    ELSE LET f == Head(text)
             r == IF k = "over"
                  THEN [min |-> f.n, max |-> NoMax, points |-> OverPoints(whole, f.n)]
                  ELSE [min |-> 0, max |-> f.n, points |-> UnderPoints(whole, f.n)]
         IN (IF f.k = k THEN <<r>> ELSE <<>>) \o RangesOf(Tail(text), k, whole)

ParseRanges(text) == RangesOf(text, "over", text) \o RangesOf(text, "under", text)

\* toolRegistry.ts 149-153
ParseMinEmployees(text) ==
    LET is == {i \in 1..Len(text) : text[i].k = "minemp"}
    IN IF ParseRanges(text) # <<>> \/ is = {} THEN 0
       ELSE text[CHOOSE i \in is : \A i2 \in is : i <= i2].n

InSeq(x, sq) == \E i \in 1..Len(sq) : sq[i] = x

RECURSIVE PushNew(_, _)
\* push every name the list does not include yet (Array.includes: exact match)
PushNew(industries, names) ==
    IF names = <<>> THEN industries
    ELSE PushNew(IF InSeq(Head(names), industries) THEN industries
                 ELSE Append(industries, Head(names)), Tail(names))

RECURSIVE PushNewNoCase(_, _)
\* push every name of standalonePattern no entry equals when case is ignored
PushNewNoCase(industries, names) ==
    IF names = <<>> THEN industries
    ELSE PushNewNoCase(
           IF \/ toLowerCase(Head(names)) \notin StandaloneWords
              \/ \E i \in 1..Len(industries) :
                    toLowerCase(industries[i]) = toLowerCase(Head(names))
           THEN industries
           ELSE Append(industries, Head(names)), Tail(names))

RECURSIVE NamesOf(_, _)
\* the industry names written in the fragments of the kinds ks, in text order
NamesOf(text, ks) ==
    IF text = <<>> THEN <<>>
    ELSE (IF Head(text).k \in ks THEN Head(text).names ELSE <<>>) \o NamesOf(Tail(text), ks)

\* toolRegistry.ts 155-201
ParseIndustries(text) ==
    LET ctx == PushNew(<<>>, NamesOf(text, {"indctx"}))
        lst == IF ctx = <<>> THEN PushNew(<<>>, NamesOf(text, {"indlist"})) ELSE ctx
    IN PushNewNoCase(lst, NamesOf(text, {"indctx", "indlist", "indword"}))

\* toolRegistry.ts 203-230: the first budget pattern that matches
ParseBudget(text) ==
    LET is == {i \in 1..Len(text) : text[i].k = "budget"}
    IN IF is = {} THEN 0 ELSE text[CHOOSE i \in is : \A i2 \in is : i <= i2].n

\* toolRegistry.ts 72-233
parseCriteria(text) ==
    [minEmployees |-> ParseMinEmployees(text),
     employeeRanges |-> ParseRanges(text),
     targetIndustries |-> ParseIndustries(text),
     minBudget |-> ParseBudget(text),
     weights |-> ParseWeights(text)]

\* ------------------------------------------------------- score_lead: scoring
RECURSIVE InsertByMin(_, _)
\* place r after every range whose min is not smaller (Array.sort is stable)
InsertByMin(sorted, r) ==
    IF sorted = <<>> THEN <<r>>
    ELSE IF Head(sorted).min >= r.min THEN <<Head(sorted)>> \o InsertByMin(Tail(sorted), r)
    ELSE <<r>> \o sorted

RECURSIVE SortRanges(_, _)
\* [...employeeRanges].sort((a, b) => (b.min || 0) - (a.min || 0))
SortRanges(ranges, acc) ==
    IF ranges = <<>> THEN acc ELSE SortRanges(Tail(ranges), InsertByMin(acc, Head(ranges)))

\* index of the first element of sq that satisfies Test, 0 when none does
FirstIndex(sq, Test(_)) ==
    LET is == {i \in 1..Len(sq) : Test(sq[i])}
    IN IF is = {} THEN 0 ELSE CHOOSE i \in is : \A i2 \in is : i <= i2

Min2(x, y) == IF x <= y THEN x ELSE y

\* Math.round of the non-negative fraction num / den
RoundDiv(num, den) == (2 * num + den) \div (2 * den)

\* toolRegistry.ts 283-324, in quarter points
RangeSizeScore(ranges, sizeWeight, employees) ==
    LET sortedRanges == SortRanges(ranges, <<>>)
        InRange(r) == IF r.max # NoMax THEN employees < r.max ELSE employees >= r.min
        hit == FirstIndex(sortedRanges, InRange)
        sizeScore == IF hit = 0 THEN 0 ELSE sortedRanges[hit].points
        IsHigh(r) == (r.max = NoMax \/ r.max = 0) /\ employees < r.min
        IsLow(r) == r.max # NoMax /\ r.max # 0 /\ employees >= r.max
        high == FirstIndex(sortedRanges, IsHigh)
        low == FirstIndex(sortedRanges, IsLow)
    IN IF sizeScore # 0 THEN sizeScore
       ELSE IF high # 0 /\ low # 0
            THEN (sortedRanges[high].points + sortedRanges[low].points) \div 2
       ELSE IF high # 0
            THEN Q * RoundDiv(sortedRanges[high].points * employees,
                              Q * 2 * sortedRanges[high].min)
       ELSE Q * RoundDiv(3 * sizeWeight * Min2(employees, 100), 1000)

\* toolRegistry.ts 278-340, in quarter points
SizeScore(criteria, employees) ==
    LET sizeWeight == criteria.weights.size
    IN IF Len(criteria.employeeRanges) > 0
       THEN RangeSizeScore(criteria.employeeRanges, sizeWeight, employees)
       ELSE IF criteria.minEmployees > 0
       THEN IF employees >= criteria.minEmployees THEN Q * sizeWeight ELSE 0
       ELSE sizeWeight * (IF employees >= 500 THEN 4 ELSE IF employees >= 100 THEN 3
                          ELSE IF employees >= 50 THEN 2 ELSE 1)

\* the table without its rows: every word stands for itself only
variationsNone(w) == {w}

\* the table `variations` of toolRegistry.ts 362-373
variations(w) ==
    CASE w \in {"tech", "technology"} -> {"technology", "tech", "technical"}
      [] w = "saas" -> {"saas", "software", "software as a service"}
      [] w = "software" -> {"software", "saas"}
      [] w \in {"finance", "financial"} -> {"finance", "financial", "fintech", "banking"}
      [] w = "healthcare" -> {"healthcare", "health", "medical", "pharma"}
      [] w = "health" -> {"healthcare", "health", "medical"}
      [] w \in {"retail", "ecommerce"} -> {"retail", "ecommerce", "e-commerce"}
      [] OTHER -> {w}

\* toolRegistry.ts 356-383
industryMatch(targetIndustries, industry) ==
    \E i \in 1..Len(targetIndustries) :
        LET indLower == toLowerCase(targetIndustries[i])
            paramIndLower == toLowerCase(industry)
        IN \/ paramIndLower = indLower
           \/ variations(indLower) \cap variations(paramIndLower) # {}

\* /saas|tech|software/i.test(industry) on the industry words of the model
HighValueIndustry(industry) ==
    toLowerCase(industry) \in {"saas", "tech", "technology", "software", "fintech",
                                "technical"}

\* toolRegistry.ts 353-413, in quarter points
IndustryScore(criteria, industry) ==
    LET industryWeight == criteria.weights.industry
    IN IF Len(criteria.targetIndustries) > 0
       THEN IF industryMatch(criteria.targetIndustries, industry)
            THEN Q * industryWeight ELSE 0
       ELSE industryWeight * (IF HighValueIndustry(industry) THEN 4 ELSE 2)

\* toolRegistry.ts 418-450, in quarter points
BudgetScore(criteria, budget) ==
    LET intentWeight == criteria.weights.intent
    IN IF criteria.minBudget > 0
       THEN IF budget >= criteria.minBudget THEN Q * intentWeight
            ELSE Q * RoundDiv(budget * intentWeight, criteria.minBudget)
       ELSE intentWeight * (IF budget >= 200000 THEN 4 ELSE IF budget >= 100000 THEN 3
                            ELSE IF budget >= 50000 THEN 2 ELSE 1)

\* the breakdown array: an entry per attribute the lead has (0 and "" are falsy)
Breakdown(criteria, params) ==
    (IF params.employees # 0
     THEN <<[category |-> "Company Size", score |-> SizeScore(criteria, params.employees),
             maxScore |-> criteria.weights.size]>>
     ELSE <<>>)
    \o (IF params.industry # ""
        THEN <<[category |-> "Industry Fit",
                score |-> IndustryScore(criteria, params.industry),
                maxScore |-> criteria.weights.industry]>>
        ELSE <<>>)
    \o (IF params.budget # 0
        THEN <<[category |-> "Budget", score |-> BudgetScore(criteria, params.budget),
                maxScore |-> criteria.weights.intent]>>
        ELSE <<>>)

RECURSIVE SumField(_, _)
SumField(sq, field) == IF sq = <<>> THEN 0 ELSE Head(sq)[field] + SumField(Tail(sq), field)

\* maxScore += weight runs for the three categories, present in the lead or not
MaxScoreNoAbsent(criteria, breakdown) == SumField(breakdown, "maxScore")

MaxScore(criteria, breakdown) ==
    criteria.weights.size + criteria.weights.industry + criteria.weights.intent

\* (score / maxScore) * 100 is evaluated in IEEE doubles: where the exact value
\* is k + 1/2, the double product falls below it for these k (k < 300), and
\* Math.round then gives k instead of k + 1
TiesBelow == {14, 28, 56, 57, 100, 101, 102, 103, 125, 126, 127,
              213, 215, 217, 219, 238, 240, 242, 244}

\* Math.round((score / maxScore) * 100); score in quarter points
RoundPercent(score, maxScore) ==
    LET twice == (50 * score) \div maxScore
        tie == (50 * score) % maxScore = 0 /\ twice % 2 = 1
    IN IF tie /\ ((twice - 1) \div 2) \in TiesBelow
       THEN (twice - 1) \div 2
       ELSE RoundDiv(score * 100, Q * maxScore)

\* toolRegistry.ts 454-455; score in quarter points
FinalScore(score, maxScore) ==
    IF maxScore = 100 THEN RoundDiv(score, Q)
    ELSE IF maxScore > 0 THEN RoundPercent(score, maxScore)
    ELSE 0

\* toolRegistry.ts 460-467
StageFor(finalScore) ==
    IF finalScore >= 80 THEN "QUALIFIED" ELSE IF finalScore >= 60 THEN "CONTACTED" ELSE "NEW"

\* ------------------------------------------------------------ the database
\* the leads of the model; a lead's id stands for its unique email as well
LeadIds == {1}

\* the tool executions that can be in flight together
Reqs == {1, 2}

NoLead == [exists |-> FALSE, score |-> 0, stage |-> "NEW", size |-> 0, industry |-> "",
           budget |-> 0, contacted |-> FALSE]

NoResult == [success |-> FALSE, error |-> NoError]

\* writes: updates of the lead this execution made since its last Activity
IdleReq == [pc |-> "idle", tool |-> "", leadId |-> 0, lead |-> NoLead,
            weights |-> DefaultWeights, breakdown |-> <<>>, finalScore |-> 0,
            stage |-> "NEW", criteriaId |-> 0, writes |-> 0, result |-> NoResult]

\* Lead.score is a double; the model keeps it in thousandths
Milli == 1000

\* the inputs of score_lead drawn in the model (0 and "" stand for a missing field)
EmployeeValues == {0, 20, 80, 600}
IndustryValues == {"", "Software"}
BudgetValues == {0, 20000, 250000}

ScoreParams == [employees : EmployeeValues, industry : IndustryValues, budget : BudgetValues]

ScoreVocab == {WPct("size", 10), Over(500), Under(30), Pts(15, 20),
               IndList(<<"SaaS", "Tech">>)}

ScoreTexts == UNION {[1..n -> ScoreVocab] : n \in 0..MaxFrags}

\* the inputs of the concurrent executions
ConcParams == [employees : {20, 600}, industry : {"Software"}, budget : {0}]

ConcTexts == {<<>>, <<Over(500)>>}

Free(r) == req[r].pc \in {"idle", "returned"}

\* score_lead up to prisma.lead.upsert (toolRegistry.ts 65-268) and the scoring
\* that follows it without touching the database (270-467)
ScoreLeadStartUpTo(r, text, id, params, maxOps) ==
    /\ Free(r)
    /\ ops < maxOps
    /\ ops' = ops + 1
    /\ LET criteria == parseCriteria(text)
           breakdown == Breakdown(criteria, params)
           finalScore == FinalScore(SumField(breakdown, "score"),
                                    MaxScore(criteria, breakdown))
           old == leads[id]
       IN /\ leads' = [leads EXCEPT ![id] =
                         [old EXCEPT !.exists = TRUE,
                                     !.size = params.employees,
                                     !.industry = params.industry,
                                     !.budget = IF params.budget # 0
                                                THEN params.budget
                                                ELSE old.budget]]
          /\ req' = [req EXCEPT ![r] =
                       [IdleReq EXCEPT !.pc = "score_update",
                                       !.tool = "score_lead",
                                       !.leadId = id,
                                       !.weights = criteria.weights,
                                       !.breakdown = breakdown,
                                       !.finalScore = finalScore,
                                       !.stage = StageFor(finalScore),
                                       !.writes = 1]]
    /\ UNCHANGED <<activities, scorings, criteriaTable>>
    /\ UNCHANGED <<chatVars, grokVars>>

\* score_lead among the first MaxOps tool executions
ScoreLeadStart(r, text, id, params) == ScoreLeadStartUpTo(r, text, id, params, MaxOps)

\* score_lead on any criteria text of Texts and any attributes of Params
ScoreLeadUpsert(r, Texts, Params) ==
    \E text \in Texts, id \in LeadIds, params \in Params :
        /\ ScoreLeadStart(r, text, id, params)
        /\ UNCHANGED scoreLog

\* the same, the arguments of the execution kept in scoreLog
ScoreLeadLogged(r, Texts, Params) ==
    \E text \in Texts, id \in LeadIds, params \in Params :
        /\ ScoreLeadStart(r, text, id, params)
        /\ scoreLog' = Append(scoreLog, [leadId |-> id, criteria |-> text,
                                         params |-> params])

\* the update adding the new score to the stored one
ScoreLeadUpdateAdd(r) ==
    /\ req[r].pc = "score_update"
    /\ leads' = [leads EXCEPT ![req[r].leadId].score = @ + req[r].finalScore * Milli,
                              ![req[r].leadId].stage = req[r].stage]
    /\ req' = [req EXCEPT ![r].pc = "score_activity", ![r].writes = @ + 1]
    /\ UNCHANGED <<activities, scorings, criteriaTable, ops>>
    /\ UNCHANGED <<chatVars, grokVars>>
    /\ UNCHANGED scoreLog

\* prisma.lead.update of score and stage (toolRegistry.ts 469-476)
ScoreLeadUpdate(r) ==
    /\ req[r].pc = "score_update"
    /\ leads' = [leads EXCEPT ![req[r].leadId].score = req[r].finalScore * Milli,
                              ![req[r].leadId].stage = req[r].stage]
    /\ req' = [req EXCEPT ![r].pc = "score_activity", ![r].writes = @ + 1]
    /\ UNCHANGED <<activities, scorings, criteriaTable, ops>>
    /\ UNCHANGED <<chatVars, grokVars>>
    /\ UNCHANGED scoreLog

\* prisma.activity.create and the result (toolRegistry.ts 478-500)
ScoreLeadActivity(r) ==
    /\ req[r].pc = "score_activity"
    /\ activities' = Append(activities,
                            [leadId |-> req[r].leadId, type |-> "SCORE_UPDATED",
                             score |-> req[r].finalScore, breakdown |-> req[r].breakdown,
                             stage |-> "", by |-> r])
    /\ req' = [req EXCEPT ![r].pc = "returned", ![r].writes = 0,
                          ![r].result = [success |-> TRUE, error |-> NoError]]
    /\ UNCHANGED <<leads, scorings, criteriaTable, ops>>
    /\ UNCHANGED <<chatVars, grokVars>>
    /\ UNCHANGED scoreLog

\* ------------------------------------------------------------ rescore_lead
\* highValueIndustries / mediumValueIndustries (leadScoringService.ts 156-168);
\* includes() on the industry words of the model
getIndustryScore(industry) ==
    LET industryLower == toLowerCase(industry)
    IN IF industryLower \in {"technology", "finance", "healthcare", "saas", "software"}
       THEN 90
       ELSE IF industryLower \in {"retail", "manufacturing", "consulting", "media"}
            THEN 60
            ELSE 40

\* leadScoringService.ts 171-178, the numeric branch
getCompanySizeScore(size) ==
    IF size > 1000 THEN 100
    ELSE IF size > 500 THEN 80
    ELSE IF size > 100 THEN 60
    ELSE IF size > 50 THEN 40
    ELSE 20

\* leadScoringService.ts 201-230: a lead never contacted counts 999 days, one
\* contacted by update_lead_stage was contacted within the last week
getTimingScore(lead) ==
    LET stageScore == IF lead.stage \in {"MEETING_SCHEDULED", "PROPOSAL_SENT", "NEGOTIATION"}
                      THEN 100
                      ELSE IF lead.stage \in {"QUALIFIED", "CONTACTED"} THEN 70
                      ELSE IF lead.stage = "NEW" THEN 40
                      ELSE 20
    IN IF lead.contacted THEN stageScore ELSE stageScore \div 2

RECURSIVE CountFor(_, _)
CountFor(acts, id) ==
    IF acts = <<>> THEN 0
    ELSE (IF Head(acts).leadId = id THEN 1 ELSE 0) + CountFor(Tail(acts), id)

\* the weights rescore_lead stores (toolRegistry.ts 547-561)
RescoreCriteria(targetIndustries, minBudget, minCompanySize) ==
    [industryWeight |-> IF targetIndustries THEN 40 ELSE 20,
     budgetWeight |-> IF minBudget THEN 30 ELSE 20,
     companySizeWeight |-> IF minCompanySize THEN 30 ELSE 20,
     engagementWeight |-> 20,
     timingWeight |-> 10]

\* a ScoringCriteria row: the five weights and the isActive column
CriteriaRecord(w, active) ==
    [industryWeight |-> w.industryWeight, budgetWeight |-> w.budgetWeight,
     companySizeWeight |-> w.companySizeWeight, engagementWeight |-> w.engagementWeight,
     timingWeight |-> w.timingWeight, isActive |-> active]

\* "isActive" BOOLEAN NOT NULL DEFAULT true (migration.sql 47)
IsActiveDefault == TRUE

\* leadScoringService.ts 25-84: finalScore in thousandths, to the nearest one
WeightedFinalScore(lead, criteria, engagement, grokScore) ==
    LET industry == IF lead.industry # "" THEN getIndustryScore(lead.industry) ELSE 0
        companySize == IF lead.size # 0 THEN getCompanySizeScore(lead.size) ELSE 0
        budget == 0
        timing == getTimingScore(lead)
        totalWeight == criteria.industryWeight + criteria.companySizeWeight
                       + criteria.engagementWeight + criteria.budgetWeight
                       + criteria.timingWeight
        weighted == industry * criteria.industryWeight
                    + companySize * criteria.companySizeWeight
                    + engagement * criteria.engagementWeight
                    + budget * criteria.budgetWeight
                    + timing * criteria.timingWeight
    IN RoundDiv(weighted * 700, totalWeight) + grokScore * 300

\* qualifyLead answers with the provider's score or, on any failure, with 50
\* (conversationService.ts 336-358)
GrokScores == {50, 90}

\* prisma.scoringCriteria.create (toolRegistry.ts 547-561)
RescoreCreateCriteriaUpTo(r, maxOps) ==
    /\ Free(r)
    /\ ops < maxOps
    /\ ops' = ops + 1
    /\ \E id \in LeadIds, ti \in BOOLEAN, mb \in BOOLEAN, ms \in BOOLEAN :
         /\ criteriaTable' = Append(criteriaTable,
                                    CriteriaRecord(RescoreCriteria(ti, mb, ms),
                                                   IsActiveDefault))
         /\ req' = [req EXCEPT ![r] = [IdleReq EXCEPT !.pc = "rescore_find",
                                                     !.tool = "rescore_lead",
                                                     !.leadId = id,
                                                     !.criteriaId = Len(criteriaTable) + 1]]
    /\ UNCHANGED <<leads, activities, scorings>>
    /\ UNCHANGED <<chatVars, grokVars>>
    /\ UNCHANGED scoreLog

\* rescore_lead among the first MaxOps tool executions
RescoreCreateCriteria(r) == RescoreCreateCriteriaUpTo(r, MaxOps)

\* prisma.lead.findUnique and the 'Lead not found' return (toolRegistry.ts 564-570)
RescoreFindLead(r) ==
    /\ req[r].pc = "rescore_find"
    /\ IF leads[req[r].leadId].exists
       THEN req' = [req EXCEPT ![r].pc = "rescore_assess", ![r].lead = leads[req[r].leadId]]
       ELSE req' = [req EXCEPT ![r].pc = "returned",
                               ![r].result = [success |-> FALSE, error |-> "Lead not found"]]
    /\ UNCHANGED <<leads, activities, scorings, criteriaTable, ops>>
    /\ UNCHANGED <<chatVars, grokVars>>
    /\ UNCHANGED scoreLog

\* calculateScore up to finalScore (leadScoringService.ts 12-84): the criteria
\* just created are found, qualifyLead answers, the lead's activities are counted
RescoreAssess(r) ==
    /\ req[r].pc = "rescore_assess"
    /\ \E grokScore \in GrokScores :
         LET engagement == Min2(CountFor(activities, req[r].leadId) * 10, 100)
         IN req' = [req EXCEPT ![r].pc = "rescore_history",
                               ![r].finalScore =
                                   WeightedFinalScore(req[r].lead,
                                                      criteriaTable[req[r].criteriaId],
                                                      engagement, grokScore)]
    /\ UNCHANGED <<leads, activities, scorings, criteriaTable, ops>>
    /\ UNCHANGED <<chatVars, grokVars>>
    /\ UNCHANGED scoreLog

\* prisma.leadScoring.create (leadScoringService.ts 87-99)
RescoreSaveScoring(r) ==
    /\ req[r].pc = "rescore_history"
    /\ scorings' = Append(scorings, [leadId |-> req[r].leadId, score |-> req[r].finalScore])
    /\ req' = [req EXCEPT ![r].pc = "rescore_update"]
    /\ UNCHANGED <<leads, activities, criteriaTable, ops>>
    /\ UNCHANGED <<chatVars, grokVars>>
    /\ UNCHANGED scoreLog

\* prisma.lead.update of the score (leadScoringService.ts 102-105) and the
\* result of rescore_lead (toolRegistry.ts 575-599)
RescoreUpdateLead(r) ==
    /\ req[r].pc = "rescore_update"
    /\ leads' = [leads EXCEPT ![req[r].leadId].score = req[r].finalScore]
    /\ req' = [req EXCEPT ![r].pc = "returned", ![r].writes = @ + 1,
                          ![r].result = [success |-> TRUE, error |-> NoError]]
    /\ UNCHANGED <<activities, scorings, criteriaTable, ops>>
    /\ UNCHANGED <<chatVars, grokVars>>
    /\ UNCHANGED scoreLog

\* ------------------------------------------------------- update_lead_stage
\* the stages update_lead_stage is asked for in the model
StageInputs == {"MEETING_SCHEDULED", "CLOSED_LOST"}

\* prisma.lead.findUnique and the 'Lead not found' return (toolRegistry.ts 636-644)
StageFindLeadUpTo(r, maxOps) ==
    /\ Free(r)
    /\ ops < maxOps
    /\ ops' = ops + 1
    /\ \E id \in LeadIds, stage \in StageInputs :
         IF leads[id].exists
         THEN req' = [req EXCEPT ![r] = [IdleReq EXCEPT !.pc = "stage_update",
                                                       !.tool = "update_lead_stage",
                                                       !.leadId = id,
                                                       !.lead = leads[id],
                                                       !.stage = stage]]
         ELSE req' = [req EXCEPT ![r] = [IdleReq EXCEPT !.pc = "returned",
                                                       !.tool = "update_lead_stage",
                                                       !.leadId = id,
                                                       !.result = [success |-> FALSE,
                                                                   error |-> "Lead not found"]]]
    /\ UNCHANGED <<leads, activities, scorings, criteriaTable>>
    /\ UNCHANGED <<chatVars, grokVars>>
    /\ UNCHANGED scoreLog

\* update_lead_stage among the first MaxOps tool executions
StageFindLead(r) == StageFindLeadUpTo(r, MaxOps)

\* prisma.lead.update of stage and lastContactedAt (toolRegistry.ts 647-653)
StageUpdate(r) ==
    /\ req[r].pc = "stage_update"
    /\ leads' = [leads EXCEPT ![req[r].leadId].stage = req[r].stage,
                              ![req[r].leadId].contacted = TRUE]
    /\ req' = [req EXCEPT ![r].pc = "stage_activity", ![r].writes = @ + 1]
    /\ UNCHANGED <<activities, scorings, criteriaTable, ops>>
    /\ UNCHANGED <<chatVars, grokVars>>
    /\ UNCHANGED scoreLog

\* prisma.activity.create and the result (toolRegistry.ts 656-675)
StageActivity(r) ==
    /\ req[r].pc = "stage_activity"
    /\ activities' = Append(activities,
                            [leadId |-> req[r].leadId, type |-> "STAGE_CHANGED",
                             score |-> 0, breakdown |-> <<>>,
                             stage |-> req[r].stage, by |-> r])
    /\ req' = [req EXCEPT ![r].pc = "returned", ![r].writes = 0,
                          ![r].result = [success |-> TRUE, error |-> NoError]]
    /\ UNCHANGED <<leads, scorings, criteriaTable, ops>>
    /\ UNCHANGED <<chatVars, grokVars>>
    /\ UNCHANGED scoreLog

\* ToolRegistry.getGrokTools: every registered tool wrapped as a function entry
getGrokTools(registered) == {[type |-> "function", name |-> n] : n \in registered}

\* nothing sent yet
NoSent == [messages |-> <<>>, tools |-> {}]

\* the history given to chatWithTools cut down to its last turn
QueryPayloadLastTurn(m, t) == [messages |-> <<m[Len(m)]>>, tools |-> t]

\* the arguments of grokService.chatWithTools(messages, tools) (agent.ts 45, 99)
QueryPayload(m, t) == [messages |-> m, tools |-> t]

\* no HTTP status: no response arrived, or none is known yet
NoStatus == 0

NoGrokError == [status |-> NoStatus, kind |-> "none"]

\* before callGrok is invoked; i is the loop variable, outcomes what the
\* requests sent so far were answered, delays the timers that have run out
IdleGrok == [pc |-> "idle", i |-> 0, outcomes |-> <<>>, delays |-> <<>>,
             lastError |-> NoGrokError, returned |-> 0]

\* ------------------------------------------------------- routes/scoring.ts
\* the weights sent to POST /criteria in the model: the second does not sum to 100
CriteriaInputs ==
    {[industryWeight |-> 20, companySizeWeight |-> 20, engagementWeight |-> 30,
      budgetWeight |-> 20, timingWeight |-> 10],
     [industryWeight |-> 30, companySizeWeight |-> 30, engagementWeight |-> 30,
      budgetWeight |-> 30, timingWeight |-> 30]}

\* totalWeight of scoring.ts 69-74
TotalWeight(w) ==
    w.industryWeight + w.companySizeWeight + w.engagementWeight + w.budgetWeight
        + w.timingWeight

\* prisma.scoringCriteria.updateMany({where: {isActive: true}, data: {isActive: false}})
DeactivateAll(table) == [i \in 1..Len(table) |-> [table[i] EXCEPT !.isActive = FALSE]]

\* POST /api/scoring/criteria (scoring.ts 65-105)
CreateCriteria ==
    /\ Len(criteriaTable) < MaxCriteria
    /\ \E w \in CriteriaInputs, setActive \in BOOLEAN :
         IF TotalWeight(w) # 100
         THEN UNCHANGED criteriaTable
         ELSE criteriaTable' =
                  Append(IF setActive THEN DeactivateAll(criteriaTable) ELSE criteriaTable,
                         CriteriaRecord(w, setActive))
    /\ UNCHANGED <<leads, activities, scorings, req, ops, scoreLog>>
    /\ UNCHANGED <<chatVars, grokVars>>

\* PUT /api/scoring/criteria/:id/activate (scoring.ts 108-128): every record is
\* deactivated first; prisma.scoringCriteria.update rejects when no record has
\* the id, and the catch block answers 500
ActivateCriteria ==
    /\ \E id \in 1..(Len(criteriaTable) + 1) :
         criteriaTable' =
             IF id \in 1..Len(criteriaTable)
             THEN [DeactivateAll(criteriaTable) EXCEPT ![id].isActive = TRUE]
             ELSE DeactivateAll(criteriaTable)
    /\ UNCHANGED <<leads, activities, scorings, req, ops, scoreLog>>
    /\ UNCHANGED <<chatVars, grokVars>>

\* ------------------------------------------------------------------- Init
Init ==
    /\ executors = CoreTools
    /\ pc = "idle"
    /\ messages = <<>>
    /\ response = NoResponse
    /\ toolIdx = 0
    /\ loopIters = 0
    /\ chatCalls = 0
    /\ lastStatus = 0
    /\ sumTry = 0
    /\ sumCalls = 0
    /\ summary = ""
    /\ lastExec = NoExec
    /\ toolsRun = 0
    /\ failedAt = "none"
    /\ conversations = <<>>
    /\ reply = NoReply
    /\ historyError = FALSE
    /\ convId = 0
    /\ tools = {}
    /\ sent = NoSent
    /\ leads = [id \in LeadIds |-> NoLead]
    /\ activities = <<>>
    /\ scorings = <<>>
    /\ criteriaTable = <<>>
    /\ req = [r \in Reqs |-> IdleReq]
    /\ ops = 0
    /\ scoreLog = <<>>
    /\ grok = IdleGrok

\* ---------------------------------------------------------------- actions
\* ToolRegistry.registerTool (toolRegistry.ts 1280-1283), called before a request
RegisterTool ==
    /\ pc = "idle"
    /\ PluginTool \notin executors
    /\ executors' = executors \cup {PluginTool}
    /\ UNCHANGED <<pc, messages, response, toolIdx, loopIters, chatCalls, lastStatus,
                   sumTry, sumCalls, summary, lastExec, toolsRun, failedAt,
                   conversations, reply, historyError, convId, tools, sent>>
    /\ UNCHANGED <<scoreVars, grokVars>>

\* ConversationService.getConversationHistory: [] when the id is unknown
getConversationHistory(id) ==
    IF id \in 1..Len(conversations) THEN conversations[id].content ELSE <<>>

\* the lookup answering [] for every id: the prior turns are dropped
LoadHistoryEmpty(id, dbFails) == <<>>

\* getConversationHistory with its catch block (conversationService.ts 50-65):
\* [] as well when prisma.conversation.findUnique rejects
LoadHistory(id, dbFails) ==
    IF dbFails THEN <<>> ELSE getConversationHistory(id)

\* the catch block answering every exception as it answers a ZodError
FailAsInvalid(where) ==
    /\ pc' = "failed"
    /\ failedAt' = where
    /\ reply' = [status |-> 400, conversationId |-> 0, messages |-> <<>>]

\* the reply of the catch block of POST /chat
Fail(where) ==
    /\ pc' = "failed"
    /\ failedAt' = where
    /\ reply' = [status |-> 500, conversationId |-> 0, messages |-> <<>>]

\* a conversationId that no record has
UnknownId == -1

\* POST /chat up to the first provider call (agent.ts 20-44), the request
\* carrying one of the conversation ids Ids
ChatRequestWith(Ids) ==
    /\ pc = "idle"
    /\ \E valid \in BOOLEAN, conversationId \in Ids, dbFails \in BOOLEAN :
         IF ~valid
         THEN /\ pc' = "failed"
              /\ failedAt' = "validation"
              /\ reply' = [status |-> 400, conversationId |-> 0, messages |-> <<>>]
              /\ UNCHANGED <<messages, historyError, convId, tools>>
         ELSE /\ messages' = Push(IF conversationId # 0
                                  THEN LoadHistory(conversationId, dbFails)
                                  ELSE <<>>, UserTurn, 0, 0)
              /\ historyError' = (conversationId # 0 /\ dbFails)
              /\ convId' = conversationId
              /\ tools' = getGrokTools(executors)
              /\ pc' = "query"
              /\ UNCHANGED <<failedAt, reply>>
    /\ UNCHANGED <<executors, response, toolIdx, loopIters, chatCalls, lastStatus, sumTry,
                   sumCalls, summary, lastExec, toolsRun, conversations, sent>>
    /\ UNCHANGED <<scoreVars, grokVars>>

\* POST /chat from any client: no id, the id of a record, or an unknown id
ChatRequest == ChatRequestWith((0..Len(conversations)) \cup {UnknownId})

\* ChatInterface keeps the conversationId of the first response that carried one
\* (if (convId && !conversationId) setConversationId(convId)) and sends it with
\* every later message; before that it sends null
ClientConversationId == IF conversations = <<>> THEN 0 ELSE conversations[1].id

ErrorStatuses == {429, 500, 400}

\* one grokService.chatWithTools call and the synchronous code that follows it:
\* the pseudo-tag detection after the first call (agent.ts 45-71), the loop test
\* and the assistant turn (74-80) or the final turn (102-106).
\* capped: the provider stops asking for tools after MaxLoop iterations.
\* rec: the iterations whose turns are recorded.
\* Responses: the messages the provider may answer with.
ChatWithToolsOn(capped, rec, Responses) ==
    /\ pc = "query"
    /\ chatCalls' = Bump(chatCalls, rec + 1)
    /\ sent' = QueryPayload(messages, tools)
    /\ \/ \E st \in ErrorStatuses :
            /\ lastStatus' = st
            /\ Fail("provider")
            /\ UNCHANGED <<messages, response, toolIdx, loopIters, sumTry>>
       \/ \E r \in Responses :
            LET got == IF chatCalls = 0 THEN NormalizeInline(r) ELSE r
                loops == got.tc = "calls" /\ Len(got.calls) > 0
            IN /\ loops /\ capped => loopIters < MaxLoop
               /\ lastStatus' = 200
               /\ response' = got
               /\ IF loops
                  THEN /\ messages' = Push(messages, AssistantTurn(got),
                                           Bump(loopIters, rec), rec)
                       /\ toolIdx' = 1
                       /\ loopIters' = Bump(loopIters, rec)
                       /\ pc' = "tools"
                       /\ UNCHANGED sumTry
                  ELSE /\ messages' = Push(messages,
                                           AssistantTurn([got EXCEPT !.calls = NoCalls]),
                                           loopIters, rec)
                       /\ sumTry' = 0
                       /\ pc' = "summarize"
                       /\ UNCHANGED <<toolIdx, loopIters>>
               /\ UNCHANGED <<failedAt, reply>>
    /\ UNCHANGED <<executors, sumCalls, summary, lastExec, toolsRun,
                   conversations, historyError, convId, tools>>
    /\ UNCHANGED <<scoreVars, grokVars>>

ChatWithTools(capped, rec) ==
    ChatWithToolsOn(capped, rec, ToolResponses(chatCalls) \cup TextResponses)

BehavioursOf(registered, name) ==
    IF name \notin registered THEN {"ok"} ELSE Behaviours(name)

\* one iteration of the for loop over response.tool_calls (agent.ts 83-96) and,
\* after the last call, the fall through to the next provider call (99)
ExecToolCall(rec) ==
    /\ pc = "tools"
    /\ LET call == response.calls[toolIdx]
       IN IF ~JSONParses(call.args)
          THEN /\ Fail("tool_args")
               /\ UNCHANGED <<messages, toolIdx, lastExec, toolsRun>>
          ELSE \E beh \in BehavioursOf(executors, call.name) :
                 LET res == executeTool(executors, call.name, beh)
                 IN /\ lastExec' = [name |-> call.name, beh |-> beh,
                                    registered |-> call.name \in executors,
                                    result |-> res]
                    /\ toolsRun' = Bump(toolsRun, rec * MaxCalls)
                    /\ IF res.kind = "thrown"
                       THEN /\ Fail("tool_exec")
                            /\ UNCHANGED <<messages, toolIdx>>
                       ELSE /\ messages' = Push(messages, ToolTurn(call, res), loopIters, rec)
                            /\ IF toolIdx = Len(response.calls)
                               THEN /\ pc' = "query"
                                    /\ toolIdx' = 0
                               ELSE /\ pc' = "tools"
                                    /\ toolIdx' = toolIdx + 1
                            /\ UNCHANGED <<failedAt, reply>>
    /\ UNCHANGED <<executors, response, loopIters, chatCalls, lastStatus, sumTry, sumCalls,
                   summary, conversations, historyError, convId, tools, sent>>
    /\ UNCHANGED <<scoreVars, grokVars>>

GeneratedSummary == "summary"
FallbackSummary == "Unable to generate summary"

\* what one request of callGrok gives: an HTTP status (NoStatus when no response
\* arrives before the timeout) and whether a 200 body passes GrokResponseSchema
GrokOutcomes ==
    {[status |-> 200, body |-> b] : b \in {"valid", "invalid"}}
        \cup {[status |-> st, body |-> "none"] : st \in ErrorStatuses \cup {NoStatus}}

\* one attempt of callGrok (conversationService.ts 234-275) made for
\* saveConversation -> summarizeConversation (15-20, 464-481)
SummarizeAttempt ==
    /\ pc = "summarize"
    /\ sumCalls' = sumCalls + 1
    /\ \E out \in GrokOutcomes :
         IF out.status = 200 /\ out.body = "valid"
         THEN /\ summary' = GeneratedSummary
              /\ pc' = "create"
              /\ UNCHANGED sumTry
         ELSE IF out.status = 429 \/ out.status >= 500
         THEN /\ sumTry' = sumTry + 1
              /\ IF sumTry + 1 < maxRetries
                 THEN UNCHANGED <<summary, pc>>
                 ELSE /\ summary' = FallbackSummary
                      /\ pc' = "create"
         ELSE /\ summary' = FallbackSummary
              /\ pc' = "create"
              /\ UNCHANGED sumTry
    /\ UNCHANGED <<executors, messages, response, toolIdx, loopIters, chatCalls,
                   lastStatus, lastExec, toolsRun, failedAt, conversations, reply,
                   historyError, convId, tools, sent>>
    /\ UNCHANGED <<scoreVars, grokVars>>

\* the filter without the pop(): every assistant turn is returned
AllAssistant(m) ==
    LET a == SelectSeq(m, LAMBDA t : t.role = "assistant")
    IN [i \in 1..Len(a) |-> [role |-> a[i].role, content |-> a[i].content,
                             calls |-> a[i].calls]]

\* messages.filter(m => m.role === 'assistant').pop()
LastAssistant(m) ==
    LET a == SelectSeq(m, LAMBDA t : t.role = "assistant")
    IN IF Len(a) = 0 THEN <<>>
       ELSE <<[role |-> a[Len(a)].role, content |-> a[Len(a)].content,
               calls |-> a[Len(a)].calls]>>

\* prisma.conversation.create and the reply (conversationService.ts 30-44,
\* agent.ts 109-124)
CreateConversation ==
    /\ pc = "create"
    /\ \/ /\ conversations' = Append(conversations,
                                     [id |-> Len(conversations) + 1, content |-> messages,
                                      summary |-> summary])
          /\ reply' = [status |-> 200, conversationId |-> Len(conversations) + 1,
                       messages |-> LastAssistant(messages)]
          /\ pc' = "done"
          /\ UNCHANGED failedAt
       \/ /\ Fail("persistence")
          /\ UNCHANGED conversations
    /\ UNCHANGED <<executors, messages, response, toolIdx, loopIters, chatCalls,
                   lastStatus, sumTry, sumCalls, summary, lastExec, toolsRun, historyError, convId,
                   tools, sent>>
    /\ UNCHANGED <<scoreVars, grokVars>>

Next ==
    \/ RegisterTool
    \/ ChatRequest
    \/ ChatWithTools(TRUE, MaxLoop)
    \/ ExecToolCall(MaxLoop)
    \/ SummarizeAttempt
    \/ CreateConversation

Spec == Init /\ [][Next]_vars

\* ------------------------------------------------------ GrokService.callGrok
\* the waits of the catch block, in milliseconds
rateLimitBackoff == 2000
serverBackoff == 1000

\* statuses the provider answers with in RetrySpec
CallStatuses == {200, 429, 500, 503, 400, 404, NoStatus}

\* what one request gives callGrok: the status, and whether a 200 body passes
\* GrokResponseSchema.parse
CallOutcomes ==
    {[status |-> 200, body |-> b] : b \in {"valid", "invalid"}}
        \cup {[status |-> st, body |-> "none"] : st \in CallStatuses \ {200}}

\* the exception of one attempt: an HTTP error carries error.response.status, a
\* ZodError or a timeout carries none
ErrorOf(out) == IF out.status = 200 THEN [status |-> NoStatus, kind |-> "zod"]
                ELSE IF out.status = NoStatus THEN [status |-> NoStatus, kind |-> "network"]
                ELSE [status |-> out.status, kind |-> "http"]

\* the catch block retrying whatever the error is
RetriedAlways(err) == TRUE

\* the branches of the catch block that wait and go on (conversationService.ts
\* 263-269); undefined >= 500 is false
Retried(err) == err.kind = "http" /\ (err.status = 429 \/ err.status >= 500)

\* every wait as long as the first
BackoffFlat(err, i) == IF err.status = 429 THEN rateLimitBackoff ELSE serverBackoff

\* the timeout of the wait of iteration i
Backoff(err, i) == IF err.status = 429 THEN rateLimitBackoff * (i + 1)
                   ELSE serverBackoff * (i + 1)

\* callGrok is invoked (conversationService.ts 225-234)
GrokCall ==
    /\ grok.pc = "idle"
    /\ grok' = [grok EXCEPT !.pc = "request"]
    /\ UNCHANGED <<chatVars, scoreVars>>

\* one iteration of the for loop up to its return, throw or wait (234-273)
GrokAttempt ==
    /\ grok.pc = "request"
    /\ \E out \in CallOutcomes :
         IF out.status = 200 /\ out.body = "valid"
         THEN grok' = [grok EXCEPT !.pc = "returned",
                                   !.outcomes = Append(@, out),
                                   !.returned = grok.i + 1]
         ELSE IF Retried(ErrorOf(out))
         THEN grok' = [grok EXCEPT !.pc = "wait",
                                   !.outcomes = Append(@, out),
                                   !.lastError = ErrorOf(out)]
         ELSE grok' = [grok EXCEPT !.pc = "thrown",
                                   !.outcomes = Append(@, out),
                                   !.lastError = ErrorOf(out)]
    /\ UNCHANGED <<chatVars, scoreVars>>

\* the timer of the catch block runs out: the next iteration, or throw lastError
\* after the last one (266, 269, 234, 277)
GrokBackoff ==
    /\ grok.pc = "wait"
    /\ grok' = [grok EXCEPT !.delays = Append(@, Backoff(grok.lastError, grok.i)),
                            !.i = grok.i + 1,
                            !.pc = IF grok.i + 1 < maxRetries THEN "request"
                                   ELSE "thrown"]
    /\ UNCHANGED <<chatVars, scoreVars>>

RetryNext ==
    \/ GrokCall
    \/ GrokAttempt
    \/ GrokBackoff

RetrySpec == Init /\ [][RetryNext]_vars

\* the same handler with a provider that may ask for tools without end
LoopNext ==
    \/ RegisterTool
    \/ ChatRequest
    \/ ChatWithTools(FALSE, LoopRecorded)
    \/ ExecToolCall(LoopRecorded)
    \/ SummarizeAttempt
    \/ CreateConversation

\* every awaited call of the handler eventually settles
LoopSpec == Init /\ [][LoopNext]_vars /\ WF_vars(LoopNext)

\* the answers of the provider in SessionSpec: one score_lead call, or plain text
SessionResponses(chat) ==
    {[tc |-> "calls",
      calls |-> <<[id |-> chat * (MaxCalls + 1) + 1, name |-> "score_lead",
                   args |-> ValidArgs]>>,
      content |-> PlainText],
     [tc |-> "absent", calls |-> NoCalls, content |-> PlainText]}

\* the server takes the next POST /chat: the handler starts with fresh locals
\* (agent.ts 20-28); the registry and the tables stay
NewRequestUpTo(saved) ==
    /\ pc \in {"done", "failed"}
    /\ Len(conversations) <= saved
    /\ pc' = "idle"
    /\ messages' = <<>>
    /\ response' = NoResponse
    /\ toolIdx' = 0
    /\ loopIters' = 0
    /\ chatCalls' = 0
    /\ lastStatus' = 0
    /\ sumTry' = 0
    /\ sumCalls' = 0
    /\ summary' = ""
    /\ lastExec' = NoExec
    /\ toolsRun' = 0
    /\ failedAt' = "none"
    /\ reply' = NoReply
    /\ historyError' = FALSE
    /\ convId' = 0
    /\ tools' = {}
    /\ sent' = NoSent
    /\ UNCHANGED <<executors, conversations>>
    /\ UNCHANGED <<scoreVars, grokVars>>

NewRequest == NewRequestUpTo(MaxSaved)

\* chat requests one after the other, a later one continuing a saved conversation
SessionNext ==
    \/ NewRequest
    \/ ChatRequest
    \/ ChatWithToolsOn(TRUE, MaxLoop, SessionResponses(chatCalls))
    \/ ExecToolCall(MaxLoop)
    \/ SummarizeAttempt
    \/ CreateConversation

SessionSpec == Init /\ [][SessionNext]_vars

\* the messages of one ChatInterface, one after the other
ClientNext ==
    \/ NewRequestUpTo(MaxClientSaved)
    \/ ChatRequestWith({ClientConversationId})
    \/ ChatWithToolsOn(TRUE, MaxLoop, SessionResponses(chatCalls))
    \/ ExecToolCall(MaxLoop)
    \/ SummarizeAttempt
    \/ CreateConversation

ClientSpec == Init /\ [][ClientNext]_vars

\* one tool execution at a time, on every input of the model
ScoreNext ==
    \/ ScoreLeadUpsert(1, ScoreTexts, ScoreParams)
    \/ ScoreLeadUpdate(1)
    \/ ScoreLeadActivity(1)
    \/ RescoreCreateCriteria(1)
    \/ RescoreFindLead(1)
    \/ RescoreAssess(1)
    \/ RescoreSaveScoring(1)
    \/ RescoreUpdateLead(1)
    \/ StageFindLead(1)
    \/ StageUpdate(1)
    \/ StageActivity(1)

ScoreSpec == Init /\ [][ScoreNext]_vars

\* criteria texts that set the weights, a category with the value 0 among them
WeightVocab == {WPct("size", 0), WPct("industry", 0), WPct("intent", 0), WPts("size", 0),
               Over(500)}

WeightTexts == UNION {[1..n -> WeightVocab] : n \in 0..MaxWeightFrags}

WeightParams == [employees : {80, 600}, industry : {"Software"}, budget : {0, 20000}]

\* score_lead on the criteria texts that set weights
ParseNext ==
    \/ ScoreLeadUpsert(1, WeightTexts, WeightParams)
    \/ ScoreLeadUpdate(1)
    \/ ScoreLeadActivity(1)

ParseSpec == Init /\ [][ParseNext]_vars

\* the inputs of the repeated executions
IdemTexts == {<<>>, <<Over(500)>>, <<WPct("size", 10)>>, <<Over(500), Pts(15, 20)>>,
              <<IndList(<<"SaaS", "Tech">>)>>}

IdemParams == [employees : {20, 600}, industry : IndustryValues, budget : {0, 250000}]

\* score_lead executed again and again, one execution at a time
IdemNext ==
    \/ ScoreLeadLogged(1, IdemTexts, IdemParams)
    \/ ScoreLeadUpdate(1)
    \/ ScoreLeadActivity(1)

IdemSpec == Init /\ [][IdemNext]_vars

\* criteria texts that give employee ranges, a range worth 0 points among them
SizeVocab == {Over(500), Over(100), Under(30), Pts(0, 0), Pts(15, 20)}

SizeTexts == UNION {[1..n -> SizeVocab] : n \in 0..MaxFrags}

SizeParams == [employees : {20, 80, 490, 650}, industry : {""}, budget : {0}]

\* score_lead on the criteria texts that give employee ranges
SizeNext ==
    \/ ScoreLeadLogged(1, SizeTexts, SizeParams)
    \/ ScoreLeadUpdate(1)
    \/ ScoreLeadActivity(1)

SizeSpec == Init /\ [][SizeNext]_vars

\* criteria texts that name target industries, and one that names none
IndustryTexts == {<<>>, <<IndList(<<"SaaS", "Tech">>)>>, <<IndWord("Retail")>>,
                  <<IndCtx(<<"Finance">>)>>, <<IndCtx(<<"Mining">>)>>,
                  <<IndWord("Healthcare"), WPct("industry", 50)>>,
                  <<IndCtx(<<"Health">>)>>, <<IndList(<<"SaaS", "saas">>)>>,
                  <<IndCtx(<<"Tech", "tech">>)>>}

IndustryParams == [employees : {0},
                   industry : {"", "Software", "SOFTWARE", "Technical", "Banking", "Pharma",
                               "Mining", "Retail", "Healthcare"},
                   budget : {0}]

\* score_lead on the criteria texts that name target industries
IndustryNext ==
    \/ ScoreLeadLogged(1, IndustryTexts, IndustryParams)
    \/ ScoreLeadUpdate(1)
    \/ ScoreLeadActivity(1)

IndustrySpec == Init /\ [][IndustryNext]_vars

\* two tool executions whose awaited database calls interleave
ConcNext ==
    \E r \in Reqs :
        \/ ScoreLeadUpsert(r, ConcTexts, ConcParams)
        \/ ScoreLeadUpdate(r)
        \/ ScoreLeadActivity(r)

ConcSpec == Init /\ [][ConcNext]_vars

\* the operations that write the ScoringCriteria table
CriteriaNext ==
    \/ CreateCriteria
    \/ ActivateCriteria
    \/ RescoreCreateCriteria(1)
    \/ RescoreFindLead(1)

CriteriaSpec == Init /\ [][CriteriaNext]_vars

\* ================================================================= claims
\* ----------------------------------------------------------------- C1
\* C1: executeTool never throws. Every invocation resolves to a result; for an
\* unregistered name the result is {success: false, error: "Tool '<name>' not
\* found"}, and for an executor that throws it is {success: false, error: <the
\* exception's message>} ('Tool execution failed' when what was thrown is no
\* Error), so no exception of an executor ends the chat request.
C1_ExecuteToolNeverThrows ==
    /\ failedAt # "tool_exec"
    /\ lastExec # NoExec =>
         /\ lastExec.result.kind = "returned"
         /\ ~lastExec.registered =>
              /\ ~lastExec.result.success
              /\ lastExec.result.error = "Tool '" \o lastExec.name \o "' not found"
         /\ (lastExec.registered /\ lastExec.beh = "throwError") =>
              /\ ~lastExec.result.success
              /\ lastExec.result.error = ExecutorMessage
         /\ (lastExec.registered /\ lastExec.beh = "throwOther") =>
              /\ ~lastExec.result.success
              /\ lastExec.result.error = "Tool execution failed"

\* a registered executor threw an Error and the handler went on to the next
\* provider call with the failure result
C1_ThrowingExecutorSeen ==
    /\ lastExec.registered
    /\ lastExec.beh = "throwError"
    /\ lastExec.result = [kind |-> "returned", success |-> FALSE, error |-> ExecutorMessage]
    /\ pc = "query"

\* ----------------------------------------------------------------- C2
\* C2: a failure of a tool call requested by the provider never aborts the chat
\* request, whatever the tool name and the argument string: the request never
\* ends in the catch block because of a tool call.
C2_ToolFailureNeverAborts ==
    ~(pc = "failed" /\ failedAt \in {"tool_args", "tool_exec"})

\* ----------------------------------------------------------------- C3
\* C3: a chatWithTools call that fails with 429 or 5xx is re-attempted up to 3
\* attempts before the failure reaches the chat request: when the request has
\* failed on such a status, the failing call alone accounts for maxRetries
\* requests, beside the one request of every loop iteration completed before.
C3_ChatWithToolsRetried ==
    (pc = "failed" /\ failedAt = "provider" /\ lastStatus \in {429, 500}) =>
        chatCalls >= loopIters + maxRetries

\* ----------------------------------------------------------------- C4
\* C4: the tool loop is bounded: even when the provider answers every query
\* with further tool calls, the chat request eventually ends (answered or
\* failed).
C4_LoopTerminates == <>(pc \in {"done", "failed"})

\* ----------------------------------------------------------------- C5
\* C5: a response without structured tool calls whose text holds a well-formed
\* <function_call> pseudo-tag is turned into a tool call at any point of the
\* loop: such a response is never taken as the final answer.
C5_InlineCallNeverFinal ==
    pc \in {"summarize", "create", "done"} =>
        ~(/\ response.tc = "absent"
          /\ response.content.tag = "closed"
          /\ JSONParses(response.content.inner))

\* ----------------------------------------------------------------- C6
\* the last SCORE_UPDATED activity of a lead (its breakdown is the persisted one)
RECURSIVE LastScoreActivity(_, _)
LastScoreActivity(acts, id) ==
    IF acts = <<>> THEN [leadId |-> id, type |-> "none", score |-> 0, breakdown |-> <<>>,
                         stage |-> "", by |-> 0]
    ELSE LET a == acts[Len(acts)]
         IN IF a.leadId = id /\ a.type = "SCORE_UPDATED" THEN a
            ELSE LastScoreActivity(SubSeq(acts, 1, Len(acts) - 1), id)

ScoreLeadReturned(r) ==
    req[r].pc = "returned" /\ req[r].tool = "score_lead" /\ req[r].result.success

C7_ScoreWithinRange ==
    \A id \in LeadIds : leads[id].score >= 0 /\ leads[id].score <= 100 * Milli

\* ----------------------------------------------------------------- C8
\* C8: once two concurrent score_lead executions for the same lead have both
\* returned, the lead's persisted score is the score of the most recently
\* written SCORE_UPDATED activity of that lead.
C8_ScoreMatchesLastActivity ==
    (\A r \in Reqs : ScoreLeadReturned(r)) =>
        \A id \in LeadIds :
            leads[id].exists =>
                leads[id].score = Milli * LastScoreActivity(activities, id).score

\* ----------------------------------------------------------------- C9
\* C9: no executor returns with a lead mutated but unaudited: when a tool
\* execution has returned, every update it made to the lead was followed by an
\* Activity it wrote.
C9_NoUnauditedReturn ==
    \A r \in Reqs : req[r].pc = "returned" => req[r].writes = 0

C11_PersistenceFailureFailsRequest ==
    /\ historyError => ~(pc = "done" /\ reply.status = 200)
    /\ (pc = "failed" /\ failedAt = "persistence") => reply.status = 500

\* ----------------------------------------------------------------- C12
\* C12: when a chatWithTools call of the handler fails (the first query or a
\* re-query after tools have run), the request is answered with HTTP 500 and
\* no Conversation record has been written for it.
C12_ProviderFailureNoSave ==
    (pc = "failed" /\ failedAt = "provider") =>
        /\ reply = [status |-> 500, conversationId |-> 0, messages |-> <<>>]
        /\ Len(conversations) = 0

\* the re-query after an executed tool failed
C12_RequeryFailed ==
    /\ pc = "failed"
    /\ failedAt = "provider"
    /\ toolsRun >= 1
    /\ chatCalls = 2

\* ----------------------------------------------------------------- C13
\* the history the request started from
PriorTurns == IF convId # 0 /\ ~historyError THEN getConversationHistory(convId) ELSE <<>>

\* the turns the request appended
NewTurns == SubSeq(messages, Len(PriorTurns) + 1, Len(messages))

CountRole(turns, role) == Len(SelectSeq(turns, LAMBDA t : t.role = role))

DoneState ==
    pc = "done" =>
        LET n == Len(messages)
            saved == conversations[Len(conversations)]
        IN /\ n >= Len(PriorTurns) + 2
           /\ SubSeq(messages, 1, Len(PriorTurns)) = PriorTurns
           /\ messages[Len(PriorTurns) + 1] = UserTurn
           /\ CountRole(NewTurns, "user") = 1
           /\ CountRole(NewTurns, "tool") = toolsRun
           /\ CountRole(NewTurns, "assistant") = loopIters + 1
           /\ messages[n] = AssistantTurn([response EXCEPT !.calls = NoCalls])
           /\ messages[n].calls = NoCalls
           /\ saved = [id |-> Len(conversations), content |-> messages, summary |-> summary]
           /\ reply = [status |-> 200, conversationId |-> saved.id,
                       messages |-> <<[role |-> "assistant", content |-> messages[n].content,
                                       calls |-> NoCalls]>>]

\* C13: in the terminal state of a chat request the final plain-text assistant
\* turn is the last element of the history; the full history (the prior turns,
\* the new user turn, every assistant and tool turn of the loop, the final
\* answer) is the content of the Conversation record the request created, the
\* only one it created; the response holds only the last assistant turn and the
\* identifier of that record.
C13_TerminalState ==
    /\ []DoneState
    /\ [][(pc # "done" /\ pc' = "done") =>
              Len(conversations') = Len(conversations) + 1]_vars

\* a request that continued a saved conversation and ran a tool is answered
C13_ContinuedConversationDone ==
    /\ pc = "done"
    /\ convId = 1
    /\ ~historyError
    /\ Len(PriorTurns) >= 2
    /\ toolsRun >= 1
    /\ Len(conversations) = 2

\* the index of the last assistant turn of m that carries tool calls (0: none)
LastCallingTurn(m) ==
    LET S == {i \in 1..Len(m) : m[i].role = "assistant" /\ m[i].calls # NoCalls}
    IN IF S = {} THEN 0 ELSE CHOOSE i \in S : \A j \in S : j <= i

\* the ids of the 'tool' turns that directly follow turn a of m
RECURSIVE ToolIdsAfter(_, _)
ToolIdsAfter(m, a) ==
    IF a + 1 <= Len(m) /\ m[a + 1].role = "tool"
    THEN <<m[a + 1].id>> \o ToolIdsAfter(m, a + 1)
    ELSE <<>>

\* the ids of the first k calls of an assistant turn
CallIds(calls, k) == [i \in 1..k |-> calls[i].id]

\* C14: within one provider turn the requested tool calls are executed one at a
\* time in the order received, and each call produces exactly one 'tool' turn
\* carrying the id of its call, appended in that order right after the assistant
\* turn that requested them: while the for loop is at call toolIdx the turns
\* after the assistant turn are those of the calls before toolIdx, and once the
\* handler has left the loop they are those of all the calls of the turn.
C14_EachCallOneToolTurn ==
    LET a == LastCallingTurn(messages)
    IN a # 0 =>
         ToolIdsAfter(messages, a) =
             CallIds(messages[a].calls,
                     IF pc = "tools" THEN toolIdx - 1 ELSE Len(messages[a].calls))

\* C15: a tool is executed only in response to a provider response that holds
\* one or more tool-call requests, and the assistant turn carrying those requests
\* is in the history, followed only by the 'tool' turns of its earlier calls,
\* before the tool is executed.
C15_ToolOnlyAfterCallingTurn ==
    [][toolsRun' # toolsRun =>
          LET a == LastCallingTurn(messages)
          IN /\ pc = "tools"
             /\ response.tc = "calls"
             /\ Len(response.calls) >= 1
             /\ toolIdx \in 1..Len(response.calls)
             /\ lastExec'.name = response.calls[toolIdx].name
             /\ a # 0
             /\ messages[a] = AssistantTurn(response)
             /\ Len(messages) = a + toolIdx - 1
             /\ ToolIdsAfter(messages, a) = CallIds(response.calls, toolIdx - 1)]_vars

\* the second call of a two-call turn has been executed
C15_SecondToolExecuted ==
    /\ toolsRun = 2
    /\ loopIters = 1
    /\ Len(response.calls) = 2
    /\ pc = "query"
    /\ Len(messages) = 4

\* the handler's loop test (agent.ts 74) on a provider message
HasToolCalls(r) == r.tc = "calls" /\ Len(r.calls) > 0

\* sequence p is the beginning of sequence m
IsPrefix(p, m) == Len(p) <= Len(m) /\ SubSeq(m, 1, Len(p)) = p

\* C16: once all tool results of a turn are appended the handler queries the
\* provider again, with the whole history as it then stands and the tool catalog
\* of the first query; a response with tool calls starts the next turn, and a
\* response without tool calls appends the final turn and goes on to saving and
\* replying, after which no tool is executed and no query is sent.
C16_RequeryUntilNoCalls ==
    [][/\ chatCalls' # chatCalls =>
            /\ sent' = [messages |-> messages, tools |-> tools]
            /\ chatCalls >= 1 =>
                 LET a == LastCallingTurn(messages)
                 IN /\ a # 0
                    /\ Len(messages) = a + Len(messages[a].calls)
                    /\ ToolIdsAfter(messages, a) =
                           CallIds(messages[a].calls, Len(messages[a].calls))
                    /\ sent'.tools = sent.tools
                    /\ IsPrefix(sent.messages, messages)
                    /\ Len(sent.messages) < a
            /\ lastStatus' = 200 =>
                 IF HasToolCalls(response')
                 THEN /\ pc' = "tools"
                      /\ messages' = Append(messages, AssistantTurn(response'))
                 ELSE /\ pc' = "summarize"
                      /\ Len(messages') = Len(messages) + 1
                      /\ messages'[Len(messages')].role = "assistant"
                      /\ messages'[Len(messages')].calls = NoCalls
                      /\ toolsRun' = toolsRun
       /\ (pc = "tools" /\ toolIdx = Len(response.calls) /\ pc' # "failed") =>
              pc' = "query"
       /\ pc \in {"summarize", "create", "done"} =>
              /\ toolsRun' = toolsRun
              /\ chatCalls' = chatCalls
              /\ pc' \in {"summarize", "create", "done", "failed"}
              /\ ~HasToolCalls(response)]_vars

\* two turns of tools, two further queries, then the final answer saved
C16_TwoRequeriesThenDone ==
    /\ pc = "done"
    /\ chatCalls = 3
    /\ loopIters = 2
    /\ toolsRun >= 3
    /\ Len(sent.messages) >= 6

\* C17: callGrok sends at most 3 requests; after a 429 on attempt n it waits
\* 2 s x n and after a 5xx on attempt n it waits 1 s x n, and attempt n + 1
\* starts only after that wait; answered 429, 429, 200 it has waited exactly
\* twice (2 s, 4 s) and returns the parsed result of the third attempt.
C17_RetryWithLinearBackoff ==
    LET n == Len(grok.outcomes)
        d == Len(grok.delays)
    IN /\ n <= maxRetries
       /\ d <= n
       /\ d >= n - 1
       /\ grok.pc = "request" => d = n
       /\ \A k \in 1..d :
            /\ grok.outcomes[k].status = 429 => grok.delays[k] = 2000 * k
            /\ grok.outcomes[k].status >= 500 => grok.delays[k] = 1000 * k
            /\ grok.outcomes[k].status = 429 \/ grok.outcomes[k].status >= 500
       /\ (n = 3 /\ grok.outcomes[1].status = 429 /\ grok.outcomes[2].status = 429
             /\ grok.outcomes[3] = [status |-> 200, body |-> "valid"]) =>
            /\ grok.pc = "returned"
            /\ grok.delays = <<2000, 4000>>
            /\ grok.returned = 3

\* callGrok answered 429, 429 and 200 has returned
C17_TwoRateLimitsThenSuccess ==
    /\ grok.pc = "returned"
    /\ Len(grok.outcomes) = 3
    /\ grok.outcomes[1].status = 429
    /\ grok.outcomes[2].status = 429
    /\ grok.outcomes[3].status = 200
    /\ Len(grok.delays) = 2

\* a 4xx status other than 429
ClientError(status) == status \in 400..499 /\ status # 429

\* C18 as stated: a call that fails with a client error has made exactly one
\* attempt and has waited for no backoff delay, on whichever attempt the client
\* error occurs.
C18_ClientErrorOneAttempt ==
    (grok.pc = "thrown" /\ ClientError(grok.lastError.status)) =>
        /\ Len(grok.outcomes) = 1
        /\ grok.delays = <<>>

\* C18 amended: a client error is not retried on whichever attempt it occurs:
\* the attempt answered by it is the last of the call, no backoff delay follows
\* it, and callGrok throws that error; the attempts and delays before it are
\* those of the retried errors, so a client error on the first attempt
\* propagates after one attempt and no delay.
C18_ClientErrorEndsCall ==
    LET n == Len(grok.outcomes)
    IN /\ \A k \in 1..n :
            ClientError(grok.outcomes[k].status) =>
                /\ k = n
                /\ grok.pc = "thrown"
                /\ grok.lastError = [status |-> grok.outcomes[k].status, kind |-> "http"]
                /\ Len(grok.delays) = n - 1
                /\ grok.i = n - 1
       /\ (n = 1 /\ ClientError(grok.outcomes[1].status)) => grok.delays = <<>>

\* a client error on the second attempt, after one rate limit and its delay
C18_ClientErrorOnSecondAttempt ==
    /\ grok.pc = "thrown"
    /\ Len(grok.outcomes) = 2
    /\ grok.outcomes[1].status = 429
    /\ grok.outcomes[2].status = 400
    /\ grok.delays = <<2000>>

\* C19: whatever the criteria text, the empty text and a text naming a category
\* with the value 0 included, parseCriteria returns a rule set and its three
\* weights sum to a positive ceiling: every score_lead execution that has parsed
\* its criteria holds weights whose sum is above 0.
C19_WeightsSumPositive ==
    \A r \in Reqs :
        req[r].tool = "score_lead" =>
            req[r].weights.size + req[r].weights.industry + req[r].weights.intent > 0

\* C20: score_lead run twice in a row with the same lead, the same attributes
\* and the same criteria text gives the same breakdown and the same score, and
\* the update of the second run leaves the lead's stored score and stage as the
\* first run left them.
C20_ScoringIdempotent ==
    /\ [](\A i \in 1..(Len(scoreLog) - 1) :
            scoreLog[i] = scoreLog[i + 1] =>
                /\ i + 1 <= Len(activities) =>
                     /\ activities[i + 1].breakdown = activities[i].breakdown
                     /\ activities[i + 1].score = activities[i].score
                /\ (i + 1 = Len(scoreLog) /\ i <= Len(activities)) =>
                     /\ req[1].breakdown = activities[i].breakdown
                     /\ req[1].finalScore = activities[i].score)
    /\ [][(/\ req[1].pc = "score_update"
           /\ req'[1].pc = "score_activity"
           /\ Len(scoreLog) >= 2
           /\ scoreLog[Len(scoreLog) - 1] = scoreLog[Len(scoreLog)]) =>
              /\ leads'[req[1].leadId].score = leads[req[1].leadId].score
              /\ leads'[req[1].leadId].stage = leads[req[1].leadId].stage
              /\ leads'[req[1].leadId].score = req[1].finalScore * Milli]_vars

\* the second of two equal runs has returned, with a score above 0
C20_SameRunTwice ==
    /\ Len(scoreLog) = 2
    /\ scoreLog[1] = scoreLog[2]
    /\ scoreLog[1].criteria # <<>>
    /\ Len(activities) = 2
    /\ req[1].pc = "returned"
    /\ leads[scoreLog[1].leadId].score > 0

\* ----------------------------------------------------------------- C21
\* the criteria and attributes of the last score_lead execution of scoreLog
LastCriteria == parseCriteria(scoreLog[Len(scoreLog)].criteria)
LastParams == scoreLog[Len(scoreLog)].params

\* the execution of the last entry of scoreLog has computed a size entry
SizeScored ==
    /\ Len(scoreLog) > 0
    /\ req[1].tool = "score_lead"
    /\ req[1].pc # "idle"
    /\ Len(req[1].breakdown) > 0
    /\ req[1].breakdown[1].category = "Company Size"

\* the test the executor makes of a range (toolRegistry.ts 288-300)
Contains(r, employees) ==
    IF r.max # NoMax THEN employees < r.max ELSE employees >= r.min

\* C21: when employee ranges exist and one of them contains the lead's employee
\* count, the size entry of the breakdown carries the points of a containing
\* range, whatever those points are, and when that range is a lower-bound range
\* no containing lower-bound range has a higher lower bound.
C21_ContainingRangePoints ==
    SizeScored =>
        LET ranges == LastCriteria.employeeRanges
            e == LastParams.employees
            hits == {i \in 1..Len(ranges) : Contains(ranges[i], e)}
        IN hits # {} =>
             \E i \in hits :
                 /\ req[1].breakdown[1].score = ranges[i].points
                 /\ ranges[i].max = NoMax =>
                      \A j \in hits : ranges[j].max = NoMax => ranges[j].min <= ranges[i].min

\* ----------------------------------------------------------------- C22
\* the employee count that bounds a range
Threshold(r) == IF r.max # NoMax THEN r.max ELSE r.min

Distance(x, y) == IF x >= y THEN x - y ELSE y - x

\* C22: when employee ranges exist, none of them contains the lead's employee
\* count and the count does not lie between a lower-bound range above it and an
\* upper-bound range below it (where the points are interpolated), the size
\* points are at most half of the points of a range whose threshold is nearest
\* to the count.
C22_FallbackAtMostHalf ==
    SizeScored =>
        LET ranges == LastCriteria.employeeRanges
            e == LastParams.employees
            idx == 1..Len(ranges)
            above == {i \in idx : ranges[i].max = NoMax /\ e < ranges[i].min}
            below == {i \in idx : ranges[i].max # NoMax /\ e >= ranges[i].max}
            nearest == {i \in idx : \A j \in idx :
                           Distance(e, Threshold(ranges[i])) <= Distance(e, Threshold(ranges[j]))}
        IN (/\ idx # {}
            /\ \A i \in idx : ~Contains(ranges[i], e)
            /\ ~(above # {} /\ below # {})) =>
               \E i \in nearest : 2 * req[1].breakdown[1].score <= ranges[i].points

\* ----------------------------------------------------------------- C23
\* the words the fixed table lists for w; none when the table has no row for w
TableRow(w) ==
    CASE w \in {"tech", "technology"} -> {"technology", "tech", "technical"}
      [] w = "saas" -> {"saas", "software", "software as a service"}
      [] w = "software" -> {"software", "saas"}
      [] w \in {"finance", "financial"} -> {"finance", "financial", "fintech", "banking"}
      [] w = "healthcare" -> {"healthcare", "health", "medical", "pharma"}
      [] w = "health" -> {"healthcare", "health", "medical"}
      [] w \in {"retail", "ecommerce"} -> {"retail", "ecommerce", "e-commerce"}
      [] OTHER -> {}

\* lead industry a equals target b when case is ignored, or the table lists one
\* of them in the row of the other
SameIndustry(a, b) ==
    LET x == toLowerCase(a)
        y == toLowerCase(b)
    IN x = y \/ x \in TableRow(y) \/ y \in TableRow(x)

\* the execution of the last entry of scoreLog has computed its breakdown
Scored ==
    /\ Len(scoreLog) > 0
    /\ req[1].tool = "score_lead"
    /\ req[1].pc # "idle"

\* C23: when the criteria name target industries and the lead has an industry,
\* the industry entry of the breakdown carries the full industry weight if the
\* lead's industry equals a target when case is ignored or is its synonym in the
\* fixed table, and 0 otherwise.
C23_IndustryFullOrZero ==
    (Scored /\ LastParams.industry # "" /\ Len(LastCriteria.targetIndustries) > 0) =>
        LET targets == LastCriteria.targetIndustries
            entry == req[1].breakdown[Len(req[1].breakdown)]
            match == \E i \in 1..Len(targets) : SameIndustry(LastParams.industry, targets[i])
        IN /\ Len(req[1].breakdown) = 1
           /\ entry.category = "Industry Fit"
           /\ entry.maxScore = LastCriteria.weights.industry
           /\ entry.score = IF match THEN Q * LastCriteria.weights.industry ELSE 0

\* lead industry Software scored against the targets SaaS and Tech
C23_SoftwareAgainstSaaS ==
    /\ Scored
    /\ LastParams.industry = "Software"
    /\ LastCriteria.targetIndustries = <<"SaaS", "Tech">>
    /\ req[1].breakdown[1].score = Q * 30
    /\ req[1].pc = "returned"

\* ----------------------------------------------------------------- C24
\* C24: the target industries the parser returns are deduplicated when case is
\* ignored: whatever the criteria text and the path that extracted them, no two
\* of them are equal when case is ignored.
C24_TargetsDistinctNoCase ==
    Scored =>
        LET targets == LastCriteria.targetIndustries
        IN \A i, j \in 1..Len(targets) :
               toLowerCase(targets[i]) = toLowerCase(targets[j]) => i = j

\* ----------------------------------------------------------------- C25
\* the final answers among turns: the assistant turns without tool calls
FinalAnswers(turns) ==
    Len(SelectSeq(turns, LAMBDA t : t.role = "assistant" /\ t.calls = NoCalls))

\* C25: when the client sends with every message the conversation id of its
\* first response, the history given to the provider in a request holds the user
\* utterance and the final answer of every earlier request that was answered
\* (each of them saved one record), and the new user utterance; requests whose
\* history could not be read from the database are left aside.
C25_HistoryHoldsEarlierRequests ==
    (chatCalls >= 1 /\ pc # "done" /\ ~historyError) =>
        /\ CountRole(sent.messages, "user") >= Len(conversations) + 1
        /\ FinalAnswers(sent.messages) >= Len(conversations)

\* ----------------------------------------------------------------- C26
\* the active ScoringCriteria records
ActiveCriteria(table) == {i \in 1..Len(table) : table[i].isActive}

\* C26: after any sequence of criteria operations at most one ScoringCriteria
\* record is active, and an activation (a step that changes the table without
\* adding a record) never leaves no record active where one was active before.
C26_OneActiveCriteria ==
    /\ [](Cardinality(ActiveCriteria(criteriaTable)) <= 1)
    /\ [][(/\ Len(criteriaTable') = Len(criteriaTable)
           /\ ActiveCriteria(criteriaTable) # {}) =>
              ActiveCriteria(criteriaTable') # {}]_vars

\* ----------------------------------------------------------------- C27
\* the tables of the persistent store the tools write
Store == <<leads, activities, scorings, criteriaTable>>

\* C27: a lead-targeting tool invoked with a leadId that matches no lead returns
\* 'Lead not found' and leaves the store as it was before the call: the call has
\* created no ScoringCriteria record, and the step that returns the error
\* changes no table.
C27_LeadNotFoundLeavesStore ==
    /\ [](\A r \in Reqs :
            (req[r].pc = "returned" /\ req[r].result.error = "Lead not found") =>
                req[r].criteriaId = 0)
    /\ [][\A r \in Reqs :
            (req'[r].pc = "returned" /\ req[r].pc # "returned"
               /\ req'[r].result.error = "Lead not found") => Store' = Store]_vars

\* ------------------------------------------------------- bulk re-scoring
\* the stages the bulk operations leave out (leadScoringService.ts 236-240,
\* leads route 273-279)
ClosedStages == {"CLOSED_WON", "CLOSED_LOST"}

\* prisma.lead.findMany of the leads not closed and the start of calculateScore
\* on the one lead of the model (leadScoringService.ts 12-19, 234-246);
\* criteriaId 0: no criteria found
BulkCalculate(r, tool, criteriaId) ==
    LET open == {id \in LeadIds : leads[id].exists /\ leads[id].stage \notin ClosedStages}
    IN IF open = {}
       THEN req' = [req EXCEPT ![r] = [IdleReq EXCEPT !.pc = "returned", !.tool = tool,
                                                     !.result = [success |-> TRUE,
                                                                 error |-> NoError]]]
       ELSE \E id \in open :
              req' = [req EXCEPT ![r] =
                        [IdleReq EXCEPT !.pc = IF criteriaId = 0 THEN "default_update"
                                               ELSE "rescore_assess",
                                        !.tool = tool,
                                        !.leadId = id,
                                        !.lead = leads[id],
                                        !.criteriaId = criteriaId]]

\* POST /api/leads/recalculate-all: every open lead is scored on the active
\* criteria, or by default when none is active
RecalculateAll(r, maxOps) ==
    /\ Free(r)
    /\ ops < maxOps
    /\ ops' = ops + 1
    /\ \E criteriaId \in IF ActiveCriteria(criteriaTable) = {} THEN {0}
                         ELSE ActiveCriteria(criteriaTable) :
         BulkCalculate(r, "recalculate_all", criteriaId)
    /\ UNCHANGED <<leads, activities, scorings, criteriaTable>>
    /\ UNCHANGED <<chatVars, grokVars>>
    /\ UNCHANGED scoreLog

\* POST /api/scoring/rescore-all: 404 on a criteriaId of no record, otherwise
\* rescoreAllLeads(criteriaId)
RescoreAll(r, maxOps) ==
    /\ Free(r)
    /\ ops < maxOps
    /\ ops' = ops + 1
    /\ \E criteriaId \in 1..(Len(criteriaTable) + 1) :
         IF criteriaId > Len(criteriaTable)
         THEN req' = [req EXCEPT ![r] = [IdleReq EXCEPT !.pc = "returned",
                                                       !.tool = "rescore_all",
                                                       !.result = [success |-> FALSE,
                                                                   error |-> "Criteria not found"]]]
         ELSE BulkCalculate(r, "rescore_all", criteriaId)
    /\ UNCHANGED <<leads, activities, scorings, criteriaTable>>
    /\ UNCHANGED <<chatVars, grokVars>>
    /\ UNCHANGED scoreLog

\* calculateDefaultScore: prisma.lead.update of the rounded provider score
\* (leadScoringService.ts 122-129)
DefaultUpdateLead(r) ==
    /\ req[r].pc = "default_update"
    /\ \E grokScore \in GrokScores :
         /\ leads' = [leads EXCEPT ![req[r].leadId].score = grokScore * Milli]
         /\ req' = [req EXCEPT ![r].pc = "default_history",
                               ![r].finalScore = grokScore * Milli,
                               ![r].writes = @ + 1]
    /\ UNCHANGED <<activities, scorings, criteriaTable, ops>>
    /\ UNCHANGED <<chatVars, grokVars>>
    /\ UNCHANGED scoreLog

\* calculateDefaultScore: prisma.leadScoring.create (leadScoringService.ts 132-143)
DefaultSaveScoring(r) ==
    /\ req[r].pc = "default_history"
    /\ scorings' = Append(scorings, [leadId |-> req[r].leadId, score |-> req[r].finalScore])
    /\ req' = [req EXCEPT ![r].pc = "returned",
                          ![r].result = [success |-> TRUE, error |-> NoError]]
    /\ UNCHANGED <<leads, activities, criteriaTable, ops>>
    /\ UNCHANGED <<chatVars, grokVars>>
    /\ UNCHANGED scoreLog

\* tool executions and bulk requests, one at a time, on a lead that can have
\* been closed before
MaxClosedOps == 3

ClosedTexts == {<<>>, <<Over(500)>>}

ClosedParams == [employees : {20, 600}, industry : {""}, budget : {0}]

ClosedNext ==
    \/ \E text \in ClosedTexts, id \in LeadIds, params \in ClosedParams :
         /\ ScoreLeadStartUpTo(1, text, id, params, MaxClosedOps)
         /\ UNCHANGED scoreLog
    \/ ScoreLeadUpdate(1)
    \/ ScoreLeadActivity(1)
    \/ StageFindLeadUpTo(1, MaxClosedOps)
    \/ StageUpdate(1)
    \/ StageActivity(1)
    \/ RescoreCreateCriteriaUpTo(1, MaxClosedOps)
    \/ RescoreFindLead(1)
    \/ RescoreAssess(1)
    \/ RescoreSaveScoring(1)
    \/ RescoreUpdateLead(1)
    \/ RecalculateAll(1, MaxClosedOps)
    \/ RescoreAll(1, MaxClosedOps)
    \/ DefaultUpdateLead(1)
    \/ DefaultSaveScoring(1)

ClosedSpec == Init /\ [][ClosedNext]_vars

\* ----------------------------------------------------------------- C28
\* the lead is closed and no update_lead_stage is about to write its stage
ClosedFor(id) ==
    /\ leads[id].exists
    /\ leads[id].stage \in ClosedStages
    /\ \A r \in Reqs : req[r].pc # "stage_update"

\* C28: a lead whose stage is CLOSED_WON or CLOSED_LOST keeps that stage and its
\* score across every step of a scoring operation (score_lead, rescore_lead,
\* bulk recalculation, rescore-all).
C28_ClosedLeadKept ==
    [][\A id \in LeadIds :
         ClosedFor(id) => /\ leads'[id].stage = leads[id].stage
                          /\ leads'[id].score = leads[id].score]_vars

\* ----------------------------------------------------------------- C29
\* C29: every ScoringCriteria record has five weights that sum to exactly 100,
\* whichever operation created it.
C29_WeightsSumTo100 ==
    \A i \in 1..Len(criteriaTable) : TotalWeight(criteriaTable[i]) = 100

\* ----------------------------------------------------------------- C30
\* the attempts made so far all failed with a retry-eligible error
AllRetryEligible ==
    \A j \in 1..Len(grok.outcomes) : Retried(ErrorOf(grok.outcomes[j]))

\* C30: callGrok waits only between attempts: a call that succeeds after k
\* retry-eligible failures has waited exactly k times, and after the third
\* retry-eligible failure the last error is thrown at once, the call having
\* waited exactly twice.
C30_WaitsOnlyBetweenAttempts ==
    /\ grok.pc = "returned" => Len(grok.delays) = Len(grok.outcomes) - 1
    /\ (Len(grok.outcomes) = maxRetries /\ AllRetryEligible) =>
           /\ grok.pc = "thrown"
           /\ Len(grok.delays) = maxRetries - 1

====
